---- MODULE Spec2Model ----
(***************************************************************************)
(* Model of src/server/entitiesDB.js: the Article and Entity collections   *)
(* of the mongo store, the asynchronous store calls issued by EntitiesDB   *)
(* (upserts, removes) and the promise of the query a caller is awaiting.   *)
(*                                                                         *)
(* Strings are sequences of one-character strings, so that concatenation   *)
(* (e.text + doc.id), length, lower-casing and the anchored regular        *)
(* expression of getArticleIdsForEntity are computed, not assumed.         *)
(* Dates are milliseconds since the epoch, as in a JS Date.                *)
(*                                                                         *)
(* The actions in which the store answers take the error it reports (err)  *)
(* as a parameter. Spec, QuerySpec and ServerSpec are the behaviours in    *)
(* which it reports none; FailSpec and FailingQuerySpec let it fail.       *)
(***************************************************************************)
EXTENDS Integers, Sequences, FiniteSets, Bags, TLC

VARIABLES
  articles,   \* the Article collection: a set of documents
  entities,   \* the Entity collection: a set of documents
  pending,    \* bag of store calls issued and not yet answered
  now,        \* the wall clock, in ms (moment())
  log,        \* history: the calls made since the store was last idle
  made,       \* history: how many calls of each kind were made
  promise     \* the promise of the query the caller is awaiting

vars == <<articles, entities, pending, now, log, made, promise>>

----------------------------------------------------------------------------
(* Bounds of the model *)

\* length of the docs array handed to one uploadArticlesFromDocs call
MaxBatch == 2
\* store calls in flight at once
MaxPending == 4
\* modelled length of a day, in seconds (a day is scaled down so that dates
\* stay small integers)
SecPerDay == 2
\* largest doc.timestamp, in seconds
MaxTs == 2
\* documents handed to uploadArticlesFromDocs, over all calls
MaxDocs == 2
\* maintenance calls (pruneOlderThan30d, pruneCharEntities), over both
MaxPrunes == 1
\* errors the store reports to queries between two ingestions
MaxFailures == 2
\* number of clock steps (each half a day)
MaxTicks == 1

----------------------------------------------------------------------------
(* Program constants *)

MsPerSec == 1000
RetentionDays == 30
DefaultStart == 0
DefaultLimit == 100
\* 9999999999999 in the source, which TLC's 32-bit integers cannot hold: the
\* largest of them stands for it, every date of the model being far below
DefaultEnd == 2147483647

DayMs == SecPerDay * MsPerSec

----------------------------------------------------------------------------
(* Strings *)

ToLowerChar(c) ==
  CASE c = "A" -> "a"
    [] c = "B" -> "b"
    [] OTHER -> c

\* $toLower / the case folding of the 'i' flag
ToLower(s) == [i \in 1..Len(s) |-> ToLowerChar(s[i])]

----------------------------------------------------------------------------
(* Inputs *)

DocIds == { <<"1">>, <<"b", "1">> }

\* doc.timestamp, in seconds since the epoch
Timestamps == 1..MaxTs

\* entities as the enrichment service reports them
AlchemyEntity(text, count, score) ==
  [text |-> text, count |-> count, sentiment |-> [score |-> score]]

\* the enriched.url.entities arrays of the documents
EntityLists ==
  { << AlchemyEntity(<<"a">>, 1, 0) >>,
    << AlchemyEntity(<<"a">>, 1, 0), AlchemyEntity(<<"a", "b">>, 3, 1) >>,
    << AlchemyEntity(<<"A", "B">>, 5, -1) >>,
    << AlchemyEntity(<<"a", "b", "b">>, 4, 1) >> }

\* the documents with doc.source.enriched.url
EnrichedDocs ==
  [kind : {"enriched"}, id : DocIds, timestamp : Timestamps,
   title : {"T"}, url : {"U"}, entities : EntityLists]

\* a document without the enriched sub-object, and a null array element
PlainDoc ==
  [kind |-> "plain", id |-> <<"1">>, timestamp |-> 1,
   title |-> "", url |-> "", entities |-> <<>>]

NullDoc == [PlainDoc EXCEPT !.kind = "null"]

Docs == EnrichedDocs \cup {PlainDoc, NullDoc}

Batches == UNION { [1..n -> Docs] : n \in 1..MaxBatch }

----------------------------------------------------------------------------
(* _adaptFromAlchemyDoc *)

\* new Date(doc.timestamp * 1000)
DateOfTimestamp(ts) == ts * MsPerSec

\* e.text + doc.id
MentionId(text, id) == text \o id

ArticlePrimitive(doc) ==
  [_id |-> doc.id, title |-> doc.title,
   date |-> DateOfTimestamp(doc.timestamp), url |-> doc.url]

EntityPrimitive(doc, e) ==
  [_id |-> MentionId(e.text, doc.id), article_id |-> doc.id,
   date |-> DateOfTimestamp(doc.timestamp), text |-> e.text,
   count |-> e.count, sentiment |-> e.sentiment.score]

\* mutant: the filter lets one-character texts through
KeepEntityNonEmpty(e) == Len(e.text) > 0

\* .filter(function (e) { return e.text.length > 1; })
KeepEntity(e) == Len(e.text) > 1

\* the entities array after map and filter
AdaptedEntities(doc) ==
  SelectSeq([i \in 1..Len(doc.entities) |-> EntityPrimitive(doc, doc.entities[i])],
            KeepEntity)

\* mutant: the primitives are returned also when no entity is left
AdaptsWithoutEntities(doc) == doc.kind = "enriched"

\* whether _adaptFromAlchemyDoc returns a value (else undefined)
Adapts(doc) == doc.kind = "enriched" /\ Len(AdaptedEntities(doc)) > 0

----------------------------------------------------------------------------
(* The store *)

\* mutant: the upsert option is left out, so nothing is inserted
UpdateOnly(coll, primitive) ==
  IF \E d \in coll : d._id = primitive._id
  THEN {d \in coll : d._id # primitive._id} \cup {primitive}
  ELSE coll

\* Model.findByIdAndUpdate(id, primitive, {upsert: true}): the document with
\* that _id is replaced by the primitive (every field of the schema is set),
\* or inserted when there is none
Upsert(coll, primitive) ==
  {d \in coll : d._id # primitive._id} \cup {primitive}

\* mutant: documents dated at the cutoff are removed too
RemoveOlderOrEqual(coll, date) == {d \in coll : ~(d.date <= date)}

\* Model.remove({ date: { $lt: new Date(date) } })
RemoveOlder(coll, date) == {d \in coll : ~(d.date < date)}

\* Entity.remove({$where: "this.text.length == 1"})
RemoveChar(coll) == {d \in coll : ~(Len(d.text) = 1)}

NoDoc == [_id |-> <<>>]

UpsertCall(model, primitive) ==
  [call |-> "findByIdAndUpdate", model |-> model, doc |-> primitive, date |-> 0]

RemoveCall(model, date) ==
  [call |-> "remove", model |-> model, doc |-> NoDoc, date |-> date]

RemoveCharCall ==
  [call |-> "removeWhere", model |-> "Entity", doc |-> NoDoc, date |-> 0]

RECURSIVE SeqToBag(_)
SeqToBag(s) ==
  IF s = <<>> THEN EmptyBag ELSE SetToBag({Head(s)}) (+) SeqToBag(Tail(s))

\* a call made while the store is idle starts a new history
Logged(entry) == IF pending = EmptyBag THEN <<entry>> ELSE Append(log, entry)

LogEntry(call, docs) == [call |-> call, docs |-> docs]

\* history: the store has reported an error to the callback of a query
Reported(err) == IF err THEN Append(log, LogEntry("error", <<>>)) ELSE log

----------------------------------------------------------------------------
(* uploadArticlesFromDocs *)

\* the store calls one element of docs gives rise to, in the order issued
DocCalls(doc) ==
  IF doc.kind # "null" /\ Adapts(doc)
  THEN <<UpsertCall("Article", ArticlePrimitive(doc))>>
       \o [i \in 1..Len(AdaptedEntities(doc)) |->
             UpsertCall("Entity", AdaptedEntities(doc)[i])]
  ELSE <<>>

\* mutant: the loop over docs ends after its first element
FirstDocCalls(docs) == IF docs = <<>> THEN <<>> ELSE DocCalls(Head(docs))

RECURSIVE BatchCalls(_)
BatchCalls(docs) ==
  IF docs = <<>> THEN <<>> ELSE DocCalls(Head(docs)) \o BatchCalls(Tail(docs))

UploadArticlesFromDocs(docs) ==
  /\ made.docs + Len(docs) <= MaxDocs
  /\ BagCardinality(pending) + Len(BatchCalls(docs)) <= MaxPending
  /\ pending' = pending (+) SeqToBag(BatchCalls(docs))
  /\ log' = Logged(LogEntry("upload", docs))
  /\ made' = [made EXCEPT !.docs = @ + Len(docs)]
  /\ UNCHANGED <<articles, entities, now, promise>>

\* the store answers an upsert; the callback ignores its argument
AnswerUpsert(c, err) ==
  /\ c \in BagToSet(pending)
  /\ c.call = "findByIdAndUpdate"
  /\ pending' = pending (-) SetToBag({c})
  /\ IF err
     THEN /\ log' = Append(log, LogEntry("error", <<>>))
          /\ UNCHANGED <<articles, entities>>
     ELSE /\ log' = log
          /\ articles' = IF c.model = "Article" THEN Upsert(articles, c.doc) ELSE articles
          /\ entities' = IF c.model = "Entity" THEN Upsert(entities, c.doc) ELSE entities
  /\ UNCHANGED <<now, made, promise>>

----------------------------------------------------------------------------
(* pruneOlderThan30d, pruneCharEntities *)

\* moment().startOf('day')
StartOfDay(t) == t - (t % DayMs)

\* .unix(): whole seconds
Unix(t) == t \div MsPerSec

\* mutant: 30 days before the current instant, not the start of its day
PruneDateOfInstant(t) == Unix(t - RetentionDays * DayMs) * MsPerSec

\* moment().startOf('day').subtract(30, 'day').unix()*1000
PruneDate(t) == Unix(StartOfDay(t) - RetentionDays * DayMs) * MsPerSec

PruneOlderThan30d ==
  /\ made.prune < MaxPrunes
  /\ BagCardinality(pending) + 2 <= MaxPending
  /\ pending' = pending (+) SetToBag({RemoveCall("Article", PruneDate(now)),
                                       RemoveCall("Entity", PruneDate(now))})
  /\ log' = Logged(LogEntry("prune", <<>>))
  /\ made' = [made EXCEPT !.prune = @ + 1]
  /\ UNCHANGED <<articles, entities, now, promise>>

PruneCharEntities ==
  /\ made.prune < MaxPrunes
  /\ BagCardinality(pending) + 1 <= MaxPending
  /\ pending' = pending (+) SetToBag({RemoveCharCall})
  /\ log' = Logged(LogEntry("pruneChar", <<>>))
  /\ made' = [made EXCEPT !.prune = @ + 1]
  /\ UNCHANGED <<articles, entities, now, promise>>

\* the store answers a remove; an error is printed and nothing else happens
AnswerRemove(c, err) ==
  /\ c \in BagToSet(pending)
  /\ c.call \in {"remove", "removeWhere"}
  /\ pending' = pending (-) SetToBag({c})
  /\ IF err
     THEN /\ log' = Append(log, LogEntry("error", <<>>))
          /\ UNCHANGED <<articles, entities>>
     ELSE /\ log' = log
          /\ articles' = IF c.model = "Article"
                          THEN RemoveOlder(articles, c.date) ELSE articles
          /\ entities' = IF c.model = "Entity"
                          THEN IF c.call = "remove"
                               THEN RemoveOlder(entities, c.date)
                               ELSE RemoveChar(entities)
                          ELSE entities
  /\ UNCHANGED <<now, made, promise>>

----------------------------------------------------------------------------
(* The clock *)

TickMs == DayMs \div 2

FirstInstant == (RetentionDays + 1) * DayMs

Tick ==
  /\ now + TickMs <= FirstInstant + MaxTicks * TickMs
  /\ now' = now + TickMs
  /\ UNCHANGED <<articles, entities, pending, log, made, promise>>

----------------------------------------------------------------------------
(* Query arguments *)

\* an optional argument: <<>> when the caller leaves it out, <<v>> otherwise
StartArgs == { <<>>, <<DateOfTimestamp(MaxTs)>> }

EndArgs == { <<>>, <<0>>, <<DateOfTimestamp(MaxTs)>> }

LimitArgs == { <<>>, <<0>>, <<1>> }

QueryEntities == { <<"a", "b">>, <<"a", ".">>, <<"A", "B", "B">> }

\* arg || dflt: undefined and 0 are both falsy
OrDefault(arg, dflt) ==
  IF arg = <<>> THEN dflt ELSE IF arg[1] = 0 THEN dflt ELSE arg[1]

----------------------------------------------------------------------------
(* The aggregation pipeline *)

\* mutant: the window is closed at its end ($lte)
InWindowClosed(e, start, end) == e.date >= start /\ e.date <= end

\* { $match: { date: { $gte: new Date(start), $lt: new Date(end) } } }
InWindow(e, start, end) == e.date >= start /\ e.date < end

Match(coll, start, end) == {e \in coll : InWindow(e, start, end)}

RECURSIVE SumCount(_)
SumCount(S) ==
  IF S = {} THEN 0
  ELSE LET e == CHOOSE x \in S : TRUE IN e.count + SumCount(S \ {e})

RECURSIVE SumSentiment(_)
SumSentiment(S) ==
  IF S = {} THEN 0
  ELSE LET e == CHOOSE x \in S : TRUE IN e.sentiment + SumSentiment(S \ {e})

Abs(n) == IF n < 0 THEN -n ELSE n

RECURSIVE Gcd(_, _)
Gcd(a, b) == IF b = 0 THEN a ELSE Gcd(b, a % b)

\* the quotient num / den as a fraction in lowest terms (den > 0)
Quotient(num, den) ==
  LET g == Gcd(Abs(num), den) IN [num |-> num \div g, den |-> den \div g]

RECURSIVE SumWeighted(_)
SumWeighted(S) ==
  IF S = {} THEN 0
  ELSE LET e == CHOOSE x \in S : TRUE
       IN  e.count * e.sentiment + SumWeighted(S \ {e})

\* mutant: the mean weighted by count
AvgWeighted(S) == Quotient(SumWeighted(S), SumCount(S))

\* $avg: '$sentiment'
Avg(S) == Quotient(SumSentiment(S), Cardinality(S))

\* { $group: { _id: {'$toLower': '$text'}, value: {$sum: '$count'},
\*             sentiment: {$avg: '$sentiment'} } }
\* mutant: grouping on the text as stored
GroupKeyExact(e) == e.text

GroupKey(e) == ToLower(e.text)

GroupOf(matched, key) ==
  LET members == {e \in matched : GroupKey(e) = key}
  IN  [_id |-> key, value |-> SumCount(members), sentiment |-> Avg(members)]

Groups(matched) == {GroupOf(matched, GroupKey(e)) : e \in matched}

\* the arrays that hold each element of S once
Perms(S) ==
  {s \in [1..Cardinality(S) -> S] :
     \A i, j \in 1..Cardinality(S) : i # j => s[i] # s[j]}

\* mutant: sorted ascending ({ value: 1 })
SortedAsc(s) == \A i \in 1..(Len(s) - 1) : s[i].value <= s[i + 1].value

\* { $sort: { value: -1 } }: the order of equal values is the store's choice
SortedDesc(s) == \A i \in 1..(Len(s) - 1) : s[i].value >= s[i + 1].value

SortByValue(G) == {s \in Perms(G) : SortedDesc(s)}

\* { $limit: limit }
Limit(s, n) == SubSeq(s, 1, IF n < Len(s) THEN n ELSE Len(s))

\* the arrays Entity.aggregate may hand to the callback of aggregateEntities
AggregateEntitiesResults(start, end, limit) ==
  LET matched == Match(entities, OrDefault(start, DefaultStart),
                       OrDefault(end, DefaultEnd))
  IN  {Limit(s, OrDefault(limit, DefaultLimit)) : s \in SortByValue(Groups(matched))}

----------------------------------------------------------------------------
(* Promises *)

NoPromise ==
  [state |-> "none", op |-> "", entity |-> <<>>, start |-> <<>>, end |-> <<>>,
   limit |-> <<>>, value |-> <<>>]

Promise(state, op, entity, start, end, limit, value) ==
  [state |-> state, op |-> op, entity |-> entity, start |-> start, end |-> end,
   limit |-> limit, value |-> value]

Settled == {"resolved", "rejected", "thrown"}

----------------------------------------------------------------------------
(* aggregateEntities *)

\* mutant: the callback takes no notice of err and resolves with res
AggregateEntitiesSwallowing(start, end, limit, err) ==
  /\ promise.state = "none"
  /\ \E res \in IF err THEN {<<>>} ELSE AggregateEntitiesResults(start, end, limit) :
       promise' = Promise("resolved", "aggregateEntities", <<>>, start, end,
                          limit, res)
  /\ log' = Reported(err)
  /\ UNCHANGED <<articles, entities, pending, now, made>>

AggregateEntities(start, end, limit, err) ==
  /\ promise.state = "none"
  /\ IF err
     THEN promise' = Promise("rejected", "aggregateEntities", <<>>, start, end,
                             limit, <<>>)
     ELSE \E res \in AggregateEntitiesResults(start, end, limit) :
            promise' = Promise("resolved", "aggregateEntities", <<>>, start, end,
                               limit, res)
  /\ log' = Reported(err)
  /\ UNCHANGED <<articles, entities, pending, now, made>>

----------------------------------------------------------------------------
(* getArticleIdsForEntity *)

\* new RegExp('^' + entity + '$', 'i').test(text), for patterns made of
\* letters, digits and the wildcard '.'
RegExpTest(entity, text) ==
  /\ Len(entity) = Len(text)
  /\ \A i \in 1..Len(entity) :
       entity[i] = "." \/ ToLowerChar(entity[i]) = ToLowerChar(text[i])

MatchEntity(coll, entity, start, end) ==
  {e \in coll : RegExpTest(entity, e.text) /\ InWindow(e, start, end)}

\* { $group: { _id: '$text', value: { $push: '$article_id' } } }: one group
\* per stored text; value holds an article_id per document of the group, in
\* the order the store visits them
PushGroups(matched) ==
  UNION { { [_id |-> t, value |-> [i \in 1..Len(s) |-> s[i].article_id]] :
              s \in Perms({e \in matched : e.text = t}) } :
          t \in {e.text : e \in matched} }

\* what the callback of getArticleIdsForEntity does with (err, res): the
\* groups come in an order of the store's choice and res[0] is the first.
\* With no group, res[0] is undefined and res[0].value throws inside the
\* callback: the promise is neither resolved nor rejected
ArticleIdsOutcomes(entity, start, end, err) ==
  LET groups == PushGroups(MatchEntity(entities, entity,
                                       OrDefault(start, DefaultStart),
                                       OrDefault(end, DefaultEnd)))
  IN  IF err THEN { [state |-> "rejected", value |-> <<>>] }
      ELSE IF groups = {} THEN { [state |-> "thrown", value |-> <<>>] }
      ELSE { [state |-> "resolved", value |-> g.value] : g \in groups }

GetArticleIdsForEntity(entity, start, end, err) ==
  /\ promise.state = "none"
  /\ \E o \in ArticleIdsOutcomes(entity, start, end, err) :
       promise' = Promise(o.state, "getArticleIdsForEntity", entity, start, end,
                          <<>>, o.value)
  /\ log' = Reported(err)
  /\ UNCHANGED <<articles, entities, pending, now, made>>

----------------------------------------------------------------------------
(* getArticlesForEntity *)

Range(s) == {s[i] : i \in 1..Len(s)}

\* the call: getArticleIdsForEntity(...).then(...). When the ids resolve, the
\* promise waits for Article.find with the ids in value
GetArticlesForEntity(entity, start, end, err) ==
  /\ promise.state = "none"
  /\ \E o \in ArticleIdsOutcomes(entity, start, end, err) :
       promise' = Promise(IF o.state = "resolved" THEN "finding" ELSE o.state,
                          "getArticlesForEntity", entity, start, end, <<>>,
                          o.value)
  /\ log' = Reported(err)
  /\ UNCHANGED <<articles, entities, pending, now, made>>

\* mutant: oldest first ({ sort: {date: 1} })
SortedByDateAsc(s) == \A i \in 1..(Len(s) - 1) : s[i].date <= s[i + 1].date

\* { sort: {date: -1} }
SortedByDateDesc(s) == \A i \in 1..(Len(s) - 1) : s[i].date >= s[i + 1].date

\* Article.find({ '_id': { $in: articleIds } }, null, { sort: {date: -1} })
FindArticles(articleIds) ==
  {s \in Perms({a \in articles : a._id \in Range(articleIds)}) :
     SortedByDateDesc(s)}

\* mutant: the Articles found are taken out of the collection
AnswerFindRemoving(err) ==
  /\ promise.state = "finding"
  /\ \E found \in FindArticles(promise.value) :
       /\ promise' = [promise EXCEPT !.state = "resolved", !.value = found]
       /\ articles' = articles \ Range(found)
  /\ UNCHANGED <<entities, pending, now, log, made>>

\* the store answers Article.find
AnswerFind(err) ==
  /\ promise.state = "finding"
  /\ IF err
     THEN promise' = [promise EXCEPT !.state = "rejected", !.value = <<>>]
     ELSE \E found \in FindArticles(promise.value) :
            promise' = [promise EXCEPT !.state = "resolved", !.value = found]
  /\ log' = Reported(err)
  /\ UNCHANGED <<articles, entities, pending, now, made>>

\* the caller is done with the promise (or gives up waiting for it)
Forget ==
  /\ promise.state \in Settled
  /\ promise' = NoPromise
  /\ UNCHANGED <<articles, entities, pending, now, log, made>>

----------------------------------------------------------------------------
(* getMinAndMaxDates *)

\* one of the two promises joined by getMinAndMaxDates: whether its
\* Article.find has been answered, and what it resolved with (<<>> is null)
Unanswered == [answered |-> FALSE, date |-> <<>>]

Answered(date) == [answered |-> TRUE, date |-> date]

\* the call: _getMinDate() and _getMaxDate() each issue an Article.find
GetMinAndMaxDates ==
  /\ promise.state = "none"
  /\ promise' = Promise("dating", "getMinAndMaxDates", <<>>, <<>>, <<>>, <<>>,
                        <<Unanswered, Unanswered>>)
  /\ UNCHANGED <<articles, entities, pending, now, log, made>>

\* Article.find({}, 'date', {limit: 1, sort: {date: 1}}), then
\* docs[0] ? docs[0].date.getTime() : null
MinDate ==
  IF articles = {} THEN <<>>
  ELSE << (CHOOSE a \in articles : \A b \in articles : a.date <= b.date).date >>

\* the same with sort: {date: -1}
MaxDate ==
  IF articles = {} THEN <<>>
  ELSE << (CHOOSE a \in articles : \A b \in articles : a.date >= b.date).date >>

\* Promise.join: rejected as soon as one of the two is, resolved when both
\* are; a promise that is settled stays as it is
Join(state, slots, err) ==
  IF state = "rejected" THEN "rejected"
  ELSE IF err THEN "rejected"
  ELSE IF \A i \in 1..Len(slots) : slots[i].answered THEN "resolved"
  ELSE "dating"

\* the store answers one of the two finds: slot 1 is min, slot 2 is max
AnswerDate(slot, date, err) ==
  /\ promise.op = "getMinAndMaxDates"
  /\ promise.state \in {"dating", "rejected"}
  /\ ~promise.value[slot].answered
  /\ LET slots == [promise.value EXCEPT
                     ![slot] = Answered(IF err THEN <<>> ELSE date)]
     IN  promise' = [promise EXCEPT !.state = Join(promise.state, slots, err),
                                    !.value = slots]
  /\ log' = Reported(err)
  /\ UNCHANGED <<articles, entities, pending, now, made>>

AnswerMinDate(err) == AnswerDate(1, MinDate, err)

AnswerMaxDate(err) == AnswerDate(2, MaxDate, err)

----------------------------------------------------------------------------
(* Specifications *)

Init ==
  /\ articles = {}
  /\ entities = {}
  /\ pending = EmptyBag
  /\ now = FirstInstant
  /\ log = <<>>
  /\ made = [docs |-> 0, prune |-> 0]
  /\ promise = NoPromise

Next ==
  \/ \E docs \in Batches : UploadArticlesFromDocs(docs)
  \/ \E c \in BagToSet(pending) : AnswerUpsert(c, FALSE)
  \/ PruneOlderThan30d
  \/ PruneCharEntities
  \/ \E c \in BagToSet(pending) : AnswerRemove(c, FALSE)
  \/ Tick

\* ingestion, retention and the clock
Spec == Init /\ [][Next]_vars

\* documents ingested one call each
Ingest ==
  \/ \E doc \in Docs : UploadArticlesFromDocs(<<doc>>)
  \/ \E c \in BagToSet(pending) : AnswerUpsert(c, FALSE)

Query ==
  \/ \E start \in StartArgs, end \in EndArgs, limit \in LimitArgs :
        AggregateEntities(start, end, limit, FALSE)
  \/ \E entity \in QueryEntities, start \in StartArgs, end \in EndArgs :
        GetArticleIdsForEntity(entity, start, end, FALSE)
  \/ \E entity \in QueryEntities, start \in StartArgs, end \in EndArgs :
        GetArticlesForEntity(entity, start, end, FALSE)
  \/ AnswerFind(FALSE)
  \/ Forget

QueryNext == Ingest \/ Query

\* queries against a store that is being ingested into
QuerySpec == Init /\ [][QueryNext]_vars

\* ingestion where the store may fail any upsert
FailNext ==
  \/ \E docs \in Batches : UploadArticlesFromDocs(docs)
  \/ \E c \in BagToSet(pending), err \in BOOLEAN : AnswerUpsert(c, err)

FailSpec == Init /\ [][FailNext]_vars

Dates ==
  \/ GetMinAndMaxDates
  \/ AnswerMinDate(FALSE)
  \/ AnswerMaxDate(FALSE)

Retention ==
  \/ PruneOlderThan30d
  \/ PruneCharEntities
  \/ \E c \in BagToSet(pending) : AnswerRemove(c, FALSE)

\* the queries with start, end and limit left out
PlainQuery ==
  \/ AggregateEntities(<<>>, <<>>, <<>>, FALSE)
  \/ \E entity \in QueryEntities : GetArticleIdsForEntity(entity, <<>>, <<>>, FALSE)
  \/ \E entity \in QueryEntities : GetArticlesForEntity(entity, <<>>, <<>>, FALSE)
  \/ AnswerFind(FALSE)
  \/ Forget

ServerNext == Ingest \/ Retention \/ PlainQuery \/ Dates

\* every operation of EntitiesDB, running concurrently
ServerSpec == Init /\ [][ServerNext]_vars

\* the number of errors in the history
Failures == Cardinality({i \in 1..Len(log) : log[i].call = "error"})

MayFail(err) == err => Failures < MaxFailures

\* the queries where the store may fail any of their calls
FailingQuery ==
  \/ \E err \in BOOLEAN :
        MayFail(err) /\ AggregateEntities(<<>>, <<>>, <<>>, err)
  \/ \E entity \in QueryEntities, err \in BOOLEAN :
        MayFail(err) /\ GetArticleIdsForEntity(entity, <<>>, <<>>, err)
  \/ \E entity \in QueryEntities, err \in BOOLEAN :
        MayFail(err) /\ GetArticlesForEntity(entity, <<>>, <<>>, err)
  \/ \E err \in BOOLEAN : MayFail(err) /\ AnswerFind(err)
  \/ GetMinAndMaxDates
  \/ \E err \in BOOLEAN : MayFail(err) /\ AnswerMinDate(err)
  \/ \E err \in BOOLEAN : MayFail(err) /\ AnswerMaxDate(err)
  \/ Forget

FailingQueryNext == Ingest \/ FailingQuery

FailingQuerySpec == Init /\ [][FailingQueryNext]_vars

----------------------------------------------------------------------------
(* Vocabulary of the properties *)

\* the store is idle: every call issued has been answered
Idle == pending = EmptyBag

IsUpload(entry) == entry.call = "upload"

RECURSIVE DocsOf(_)
DocsOf(l) == IF l = <<>> THEN <<>> ELSE Head(l).docs \o DocsOf(Tail(l))

\* the documents handed over since the store was last idle, when nothing but
\* uploadArticlesFromDocs was called since then (<<>> otherwise)
IngestedDocs ==
  IF \A i \in 1..Len(log) : IsUpload(log[i]) THEN DocsOf(log) ELSE <<>>

\* the entities of a document that are not degenerate
ValidEntities(d) ==
  IF d.kind = "enriched"
  THEN {d.entities[i] : i \in {j \in 1..Len(d.entities) : Len(d.entities[j].text) > 1}}
  ELSE {}

MentionsOf(text, id) == {m \in entities : m.text = text /\ m.article_id = id}

\* a Mention carries the values document d gives for one of its entities
FromDoc(m, d) ==
  /\ m.article_id = d.id
  /\ m.date = d.timestamp * 1000
  /\ \E e \in ValidEntities(d) :
       m.text = e.text /\ m.count = e.count /\ m.sentiment = e.sentiment.score

\* document d was handed over twice, one call each, starting from an idle
\* store, and every upsert has been answered
IngestedTwice(d) ==
  /\ Idle
  /\ log = <<LogEntry("upload", <<d>>), LogEntry("upload", <<d>>)>>

----------------------------------------------------------------------------
(* C1 *)

\* C1: idempotent ingestion. After uploadArticlesFromDocs([d]) has run twice
\* for a document d that adapts, and every upsert has been answered, the store
\* holds exactly one Article with id d.id, carrying d's title, url and date,
\* and exactly one Mention per (entity text, d.id) pair of d, carrying d's
\* values; when these were the only documents ever ingested the store holds
\* nothing else (the record set of a single ingestion).
C1_IdempotentIngestion ==
  \A d \in EnrichedDocs :
    (IngestedTwice(d) /\ ValidEntities(d) # {}) =>
      /\ Cardinality({a \in articles : a._id = d.id}) = 1
      /\ \A a \in articles :
           a._id = d.id =>
             a.title = d.title /\ a.url = d.url /\ a.date = d.timestamp * 1000
      /\ \A e \in ValidEntities(d) :
           /\ Cardinality(MentionsOf(e.text, d.id)) = 1
           /\ Cardinality({m \in entities : m._id = e.text \o d.id}) = 1
           /\ \A m \in MentionsOf(e.text, d.id) : FromDoc(m, d)
      /\ made.docs = 2 =>
           /\ Cardinality(articles) = 1
           /\ Cardinality(entities) = Cardinality({e.text : e \in ValidEntities(d)})

\* a document listing a degenerate and a valid entity has been ingested twice
C1_Witness ==
  \E d \in EnrichedDocs :
    /\ IngestedTwice(d)
    /\ Len(d.entities) = 2
    /\ \E a \in articles : a._id = d.id
    /\ \E m \in entities : m.article_id = d.id

----------------------------------------------------------------------------
(* C2 *)

\* C2: mention identity is unique per (entity text, article id) pair. When two
\* documents have been ingested and every upsert answered, any two of their
\* pairs (t1, a1), (t2, a2) with texts longer than one character and t1 # t2
\* or a1 # a2 have different Mention ids, and the store holds a Mention for
\* each of the two.
C2_MentionIdentityUnique ==
  (Idle /\ Len(IngestedDocs) = 2) =>
    LET d1 == IngestedDocs[1]
        d2 == IngestedDocs[2]
    IN  \A e1 \in ValidEntities(d1), e2 \in ValidEntities(d2) :
          (e1.text # e2.text \/ d1.id # d2.id) =>
            /\ MentionId(e1.text, d1.id) # MentionId(e2.text, d2.id)
            /\ MentionsOf(e1.text, d1.id) # {}
            /\ MentionsOf(e2.text, d2.id) # {}

----------------------------------------------------------------------------
(* C3 *)

\* C3: degenerate filtering. No stored Mention, and no upsert in flight, has a
\* text of length <= 1; and once a single document has been ingested and
\* every upsert answered, each of its entities with a longer text is stored,
\* also when the document lists a degenerate entity beside it.
C3_DegenerateFiltering ==
  /\ \A m \in entities : Len(m.text) > 1
  /\ \A c \in BagToSet(pending) :
       (c.call = "findByIdAndUpdate" /\ c.model = "Entity") => Len(c.doc.text) > 1
  /\ (Idle /\ Len(IngestedDocs) = 1) =>
       \A e \in ValidEntities(IngestedDocs[1]) :
         MentionsOf(e.text, IngestedDocs[1].id) # {}

\* a document listing a one-character entity beside a valid one has been
\* ingested, and the valid one is stored
C3_Witness ==
  /\ Idle
  /\ Len(IngestedDocs) = 1
  /\ LET d == IngestedDocs[1]
     IN  /\ d.kind = "enriched"
         /\ \E i \in 1..Len(d.entities) : Len(d.entities[i].text) = 1
         /\ \E e \in ValidEntities(d) : MentionsOf(e.text, d.id) # {}

----------------------------------------------------------------------------
(* C5 *)

\* the start of the day of instant t, less 30 days (in ms)
CutoffAt(t) == ((t \div (SecPerDay * 1000)) - 30) * (SecPerDay * 1000)

\* a delete with this cutoff took coll from before to after: every document
\* dated before the cutoff is gone, every other one is there as it was
Swept(before, after, cutoff) ==
  /\ after \subseteq before
  /\ \A r \in before : r \in after <=> r.date >= cutoff

\* C5: retention cutoff. pruneOlderThan30d issues one delete per collection
\* with cutoff = (start of the current day) - 30 days, and each delete, when
\* the store carries it out, removes every document of its collection dated
\* strictly before the cutoff and leaves the documents dated >= cutoff, and
\* the other collection, as they were.
C5_RetentionCutoff ==
  [][ /\ (made'.prune = made.prune + 1 /\ log'[Len(log')].call = "prune") =>
           /\ BagCardinality(pending') = BagCardinality(pending) + 2
           /\ \A model \in {"Article", "Entity"} :
                \E c \in BagToSet(pending') :
                  /\ c.call = "remove" /\ c.model = model /\ c.date = CutoffAt(now)
                  /\ CopiesIn(c, pending') = CopiesIn(c, pending) + 1
      /\ \A c \in BagToSet(pending) :
           (c.call = "remove" /\ pending' = pending (-) SetToBag({c})) =>
             IF c.model = "Article"
             THEN Swept(articles, articles', c.date) /\ entities' = entities
             ELSE Swept(entities, entities', c.date) /\ articles' = articles
    ]_vars

\* half-way through a sweep called on an idle store: the Article delete is
\* done, an Article dated at the cutoff is still there, and a Mention dated
\* before the cutoff, whose Article is gone, awaits the Entity delete
C5_Witness ==
  /\ log = <<LogEntry("prune", <<>>)>>
  /\ now # FirstInstant
  /\ pending = SetToBag({RemoveCall("Entity", CutoffAt(now))})
  /\ \E a \in articles : a.date = CutoffAt(now)
  /\ \E m \in entities :
       m.date < CutoffAt(now) /\ \A a \in articles : a._id # m.article_id

----------------------------------------------------------------------------
(* C6 *)

\* C6: no orphans after retention. Once a pruneOlderThan30d sweep called on
\* an idle store has had both its deletes carried out, with no other call
\* since, every stored Mention's article_id is the id of a stored Article.
C6_NoOrphansAfterRetention ==
  (Idle /\ log = <<LogEntry("prune", <<>>)>>) =>
    \A m \in entities : \E a \in articles : a._id = m.article_id

----------------------------------------------------------------------------
(* Vocabulary of the query properties *)

\* a caller makes the query op; the primed promise holds what comes of it
QueryStep(op) ==
  promise.state = "none" /\ promise'.state # "none" /\ promise'.op = op

\* the window bounds as the caller wrote them: the default only when the
\* argument is left out
SuppliedStart(p) == IF p.start = <<>> THEN 0 ELSE p.start[1]

SuppliedEnd(p) == IF p.end = <<>> THEN DefaultEnd ELSE p.end[1]

SuppliedLimit(p) == IF p.limit = <<>> THEN 100 ELSE p.limit[1]

\* the same, with 0 read as left out
NonZeroStart(p) == IF p.start \in {<<>>, <<0>>} THEN 0 ELSE p.start[1]

NonZeroEnd(p) == IF p.end \in {<<>>, <<0>>} THEN DefaultEnd ELSE p.end[1]

NonZeroLimit(p) == IF p.limit \in {<<>>, <<0>>} THEN 100 ELSE p.limit[1]

\* the stored Mentions with from <= date < to
MentionsIn(from, to) == {m \in entities : from <= m.date /\ m.date < to}

SameIgnoringCase(t, u) ==
  Len(t) = Len(u) /\ \A i \in 1..Len(t) : ToLowerChar(t[i]) = ToLowerChar(u[i])

\* an entity text without regular-expression syntax
Literal(t) == \A i \in 1..Len(t) : t[i] # "."

LoweredTexts(M) == {ToLower(m.text) : m \in M}

TotalCount(M, key) == SumCount({m \in M : ToLower(m.text) = key})

Least(a, b) == IF a < b THEN a ELSE b

\* res groups exactly the Mentions of M: one group per lowercased text, its
\* value the sum of their counts
GroupsExactly(res, M) ==
  /\ {res[i]._id : i \in 1..Len(res)} = LoweredTexts(M)
  /\ \A i, j \in 1..Len(res) : i # j => res[i]._id # res[j]._id
  /\ \A i \in 1..Len(res) : res[i].value = TotalCount(M, res[i]._id)

\* the outcome p of an id lookup is drawn from the Mentions of M and no other
IdsDrawnFrom(p, M) ==
  LET hit == {m \in M : RegExpTest(p.entity, m.text)}
  IN  /\ p.state \in {"resolved", "thrown"}
      /\ p.state = "thrown" <=> hit = {}
      /\ p.state = "resolved" =>
           /\ p.value # <<>>
           /\ Range(p.value) \subseteq {m.article_id : m \in hit}

----------------------------------------------------------------------------
(* C4 *)

\* C4: empty-result safety. When no stored Mention in the window has the
\* entity's text (ignoring case), getArticleIdsForEntity resolves with no
\* article id, and getArticlesForEntity goes on with no id; neither fails nor
\* is left unsettled.
C4_EmptyResultSafety ==
  [][ \A op \in {"getArticleIdsForEntity", "getArticlesForEntity"} :
        ( /\ QueryStep(op)
          /\ Literal(promise'.entity)
          /\ \A m \in MentionsIn(NonZeroStart(promise'), NonZeroEnd(promise')) :
               ~SameIgnoringCase(m.text, promise'.entity) )
        => /\ promise'.state \in {"resolved", "finding"}
           /\ promise'.value = <<>>
    ]_vars

----------------------------------------------------------------------------
(* C7 *)

\* C7 as claimed: for every start and end the caller supplies, aggregateEntities
\* and getArticleIdsForEntity consider exactly the Mentions with
\* start <= date < end, the defaults applying only to an argument left out.
C7_WindowAsSupplied ==
  [][ /\ (QueryStep("aggregateEntities") /\ promise'.limit = <<>>) =>
           GroupsExactly(promise'.value,
                         MentionsIn(SuppliedStart(promise'), SuppliedEnd(promise')))
      /\ QueryStep("getArticleIdsForEntity") =>
           IdsDrawnFrom(promise',
                        MentionsIn(SuppliedStart(promise'), SuppliedEnd(promise')))
    ]_vars

\* C7: window half-open boundary. aggregateEntities and getArticleIdsForEntity
\* consider exactly the Mentions with start <= date < end, where start is 0
\* and end the far-future sentinel when the argument is left out or is 0: a
\* Mention dated at end is excluded, one dated at start is included.
C7_HalfOpenWindow ==
  [][ /\ (QueryStep("aggregateEntities") /\ promise'.limit = <<>>) =>
           GroupsExactly(promise'.value,
                         MentionsIn(NonZeroStart(promise'), NonZeroEnd(promise')))
      /\ QueryStep("getArticleIdsForEntity") =>
           IdsDrawnFrom(promise',
                        MentionsIn(NonZeroStart(promise'), NonZeroEnd(promise')))
    ]_vars

\* an aggregation over [0, end) left out a stored Mention dated end and
\* returned one dated before
C7_Witness ==
  /\ promise.state = "resolved"
  /\ promise.op = "aggregateEntities"
  /\ promise.start = <<>>
  /\ promise.end = <<DateOfTimestamp(MaxTs)>>
  /\ promise.limit = <<>>
  /\ Len(promise.value) = 1
  /\ \E m \in entities :
       m.date = promise.end[1] /\ ToLower(m.text) # promise.value[1]._id
  /\ \E m \in entities :
       m.date < promise.end[1] /\ ToLower(m.text) = promise.value[1]._id

----------------------------------------------------------------------------
(* C8 *)

\* C8: case-insensitive grouping. The groups aggregateEntities returns have
\* distinct keys; each key is the lowercased text of a Mention in the window
\* and its value is the sum of count over the in-window Mentions whose
\* lowercased text is the key; and up to the limit every lowercased text has
\* its group.
C8_CaseInsensitiveGrouping ==
  [][ QueryStep("aggregateEntities") =>
        LET res == promise'.value
            M == MentionsIn(NonZeroStart(promise'), NonZeroEnd(promise'))
        IN  /\ \A i, j \in 1..Len(res) : i # j => res[i]._id # res[j]._id
            /\ \A i \in 1..Len(res) :
                 /\ res[i]._id \in LoweredTexts(M)
                 /\ res[i].value = TotalCount(M, res[i]._id)
            /\ Len(res) = Least(NonZeroLimit(promise'), Cardinality(LoweredTexts(M)))
    ]_vars

\* "ab" with count 3 and "AB" with count 5 came back as one group of 8
C8_Witness ==
  /\ promise.state = "resolved"
  /\ promise.op = "aggregateEntities"
  /\ Len(promise.value) = 1
  /\ promise.value[1]._id = <<"a", "b">>
  /\ promise.value[1].value = 8
  /\ \E m \in entities : m.text = <<"a", "b">> /\ m.count = 3
  /\ \E m \in entities : m.text = <<"A", "B">> /\ m.count = 5

----------------------------------------------------------------------------
(* C9 *)

\* the groups come in non-increasing order of value, lim of them at most, and
\* no group left out has a larger value than one returned
RankedAndLimited(res, M, lim) ==
  /\ Len(res) = Least(lim, Cardinality(LoweredTexts(M)))
  /\ \A i, j \in 1..Len(res) : i < j => res[i].value >= res[j].value
  /\ \A key \in LoweredTexts(M) \ {res[i]._id : i \in 1..Len(res)} :
       \A i \in 1..Len(res) : TotalCount(M, key) <= res[i].value

\* C9 as claimed: for every limit the caller supplies, aggregateEntities
\* returns min(limit, number of groups) groups in non-increasing order of
\* value, none left out being larger; the limit is 100 only when left out.
C9_LimitAsSupplied ==
  [][ QueryStep("aggregateEntities") =>
        RankedAndLimited(promise'.value,
                         MentionsIn(NonZeroStart(promise'), NonZeroEnd(promise')),
                         SuppliedLimit(promise'))
    ]_vars

\* C9: ranking and limiting. aggregateEntities returns min(limit, number of
\* groups) groups in non-increasing order of value, and no group left out has
\* a larger value than one returned, where limit is 100 when the argument is
\* left out or is 0.
C9_RankingAndLimiting ==
  [][ QueryStep("aggregateEntities") =>
        RankedAndLimited(promise'.value,
                         MentionsIn(NonZeroStart(promise'), NonZeroEnd(promise')),
                         NonZeroLimit(promise'))
    ]_vars

\* with limit 1, the group of value 4 came back and the group of value 3 did
\* not
C9_Witness ==
  /\ promise.state = "resolved"
  /\ promise.op = "aggregateEntities"
  /\ promise.limit = <<1>>
  /\ promise.start = <<>>
  /\ promise.end = <<>>
  /\ Len(promise.value) = 1
  /\ promise.value[1].value = 4
  /\ \E m \in entities : ToLower(m.text) # promise.value[1]._id /\ m.count = 3

----------------------------------------------------------------------------
(* C10 *)

\* C10: lookup completeness. When some stored Mention in the window has the
\* entity's text ignoring case, getArticleIdsForEntity resolves with the
\* article_id of every such Mention, each once, and no other id.
C10_LookupCompleteness ==
  [][ (QueryStep("getArticleIdsForEntity") /\ Literal(promise'.entity)) =>
        LET hit == {m \in MentionsIn(NonZeroStart(promise'), NonZeroEnd(promise')) :
                      SameIgnoringCase(m.text, promise'.entity)}
        IN  hit # {} =>
              /\ promise'.state = "resolved"
              /\ Range(promise'.value) = {m.article_id : m \in hit}
              /\ Len(promise'.value) = Cardinality(Range(promise'.value))
    ]_vars

----------------------------------------------------------------------------
(* C11 *)

\* a pruneOlderThan30d sweep and the ingestion of the single document d
\* overlapped (either was called while the other had calls in flight), and
\* every call of both has been answered
SweepRacedUpload(d) ==
  /\ Idle
  /\ \/ log = <<LogEntry("prune", <<>>), LogEntry("upload", <<d>>)>>
     \/ log = <<LogEntry("upload", <<d>>), LogEntry("prune", <<>>)>>

\* C11: retention racing ingestion. When a pruneOlderThan30d sweep and the
\* upserts of a document overlap, in whatever order the store carries out the
\* deletes and the upserts, the document's Article and Mentions dated at or
\* after the sweep's cutoff are in the store once all of them are done. (The
\* clock only goes forward, so a date at or after the cutoff of the current
\* day is at or after the cutoff the sweep took.)
C11_RetentionRacingIngestion ==
  \A d \in EnrichedDocs :
    (SweepRacedUpload(d) /\ ValidEntities(d) # {}
       /\ d.timestamp * 1000 >= CutoffAt(now)) =>
      /\ \E a \in articles : a._id = d.id /\ a.date = d.timestamp * 1000
      /\ \A e \in ValidEntities(d) :
           \E m \in MentionsOf(e.text, d.id) : FromDoc(m, d)

\* a sweep called while the upserts of a document dated at the cutoff were in
\* flight has removed an older Article, and the document's records are there
C11_Witness ==
  \E d \in EnrichedDocs :
    /\ Idle
    /\ log = <<LogEntry("upload", <<d>>), LogEntry("prune", <<>>)>>
    /\ made.docs = 2
    /\ d.timestamp * 1000 = CutoffAt(now)
    /\ articles = {ArticlePrimitive(d)}
    /\ \E m \in entities : m.article_id = d.id /\ m.date = CutoffAt(now)
    /\ \A m \in entities : m.date >= CutoffAt(now)

----------------------------------------------------------------------------
(* C12 *)

\* the records document d is to be stored as: its Article and one Mention per
\* valid entity, each named by collection and id; none when d has no valid
\* entity
RecordsOf(d) ==
  IF ValidEntities(d) = {} THEN {}
  ELSE {<<"Article", d.id>>} \cup {<<"Entity", e.text \o d.id>> : e \in ValidEntities(d)}

RecordsOfAll(docs) == UNION {RecordsOf(docs[i]) : i \in 1..Len(docs)}

RECURSIVE CountRecords(_)
CountRecords(docs) ==
  IF docs = <<>> THEN 0
  ELSE Cardinality(RecordsOf(Head(docs))) + CountRecords(Tail(docs))

\* the upserts in flight in bag p, each named by collection and id
UpsertsIn(p) ==
  {<<c.model, c.doc._id>> : c \in {x \in BagToSet(p) : x.call = "findByIdAndUpdate"}}

IsError(entry) == entry.call = "error"

\* the store has failed an upsert in this step
UpsertFails ==
  /\ Len(log') = Len(log) + 1
  /\ IsError(log'[Len(log')])

\* one batch, the only one so far, has been handed over and each of its
\* upserts answered, fails of them with an error
BatchDone(docs, fails) ==
  /\ Idle
  /\ made.docs = Len(docs)
  /\ Len(log) = 1 + fails
  /\ log[1] = LogEntry("upload", docs)
  /\ \A i \in 2..Len(log) : IsError(log[i])

\* C12: per-record failure isolation. uploadArticlesFromDocs issues the
\* upsert of every Article and Mention of the batch before any of them is
\* answered; a failing upsert takes nothing but itself out of flight, changes
\* no record and reaches no caller; and when the batch is done every record
\* but the failed ones is stored (at least as many as the batch has, less the
\* failures).
C12_FailureIsolation ==
  /\ [][ /\ \A docs \in Batches :
              (made'.docs = made.docs + Len(docs)
                 /\ log'[Len(log')] = LogEntry("upload", docs)) =>
                /\ RecordsOfAll(docs) \subseteq UpsertsIn(pending')
                /\ BagCardinality(pending') = BagCardinality(pending) + CountRecords(docs)
         /\ UpsertFails =>
              /\ BagCardinality(pending') = BagCardinality(pending) - 1
              /\ pending' \sqsubseteq pending
              /\ articles' = articles /\ entities' = entities
              /\ promise' = promise /\ made' = made
       ]_vars
  /\ [](\A docs \in Batches : \A fails \in 0..MaxPending :
          BatchDone(docs, fails) =>
            /\ Cardinality(articles) + Cardinality(entities)
                 >= Cardinality(RecordsOfAll(docs)) - fails
            /\ \A a \in articles : <<"Article", a._id>> \in RecordsOfAll(docs)
            /\ \A m \in entities : <<"Entity", m._id>> \in RecordsOfAll(docs))

\* a batch of two documents is done: the upsert of the first document's
\* Mention failed, its Article and both records of the second are stored
C12_Witness ==
  \E docs \in Batches :
    /\ Len(docs) = 2
    /\ BatchDone(docs, 1)
    /\ Cardinality(RecordsOfAll(docs)) = 4
    /\ Cardinality(articles) = 2
    /\ Cardinality(entities) = 1
    /\ \E m \in entities : m.article_id = docs[2].id

----------------------------------------------------------------------------
(* C13 *)

\* a batch element that is null, has no enriched sub-object, or lists no
\* entity with a text longer than one character
ProducesNothing(d) ==
  \/ d.kind = "null"
  \/ d.kind = "plain"
  \/ \A i \in 1..Len(d.entities) : Len(d.entities[i].text) <= 1

Produces(d) == ~ProducesNothing(d)

\* the stored records, each named by collection and id
StoredRecords ==
  {<<"Article", a._id>> : a \in articles} \cup {<<"Entity", m._id>> : m \in entities}

\* C13: documents that produce nothing leave the store untouched. A call of
\* uploadArticlesFromDocs issues no upsert for an element that is null, lacks
\* the enriched sub-object or has no entity longer than one character, and
\* issues for the other elements the upserts it issues for the batch without
\* that element; once the upserts are answered the store holds the records of
\* the producing documents and no other (no Article for a document without
\* Mentions).
C13_NothingFromEmptyDocs ==
  /\ [][ \A docs \in Batches :
           (made'.docs = made.docs + Len(docs)
              /\ log'[Len(log')] = LogEntry("upload", docs)) =>
             LET new == pending' (-) pending
                 rest == SelectSeq(docs, Produces)
             IN  /\ pending \sqsubseteq pending'
                 /\ new = SeqToBag(BatchCalls(rest))
                 /\ BagCardinality(new) = CountRecords(rest)
                 /\ UpsertsIn(new) = RecordsOfAll(rest)
                 /\ (\A i \in 1..Len(docs) : ProducesNothing(docs[i])) =>
                      pending' = pending
                 /\ articles' = articles /\ entities' = entities
       ]_vars
  /\ []((Idle /\ IngestedDocs # <<>> /\ made.docs = Len(IngestedDocs)) =>
          StoredRecords = RecordsOfAll(SelectSeq(IngestedDocs, Produces)))

\* a batch of a document whose only entity is one character long and of a
\* producing document with another id has been ingested: the store holds the
\* second document's Article and no Article of the first
C13_Witness ==
  /\ Idle
  /\ Len(log) = 1
  /\ Len(IngestedDocs) = 2
  /\ made.docs = 2
  /\ LET d1 == IngestedDocs[1]
         d2 == IngestedDocs[2]
     IN  /\ d1.kind = "enriched" /\ ProducesNothing(d1)
         /\ Produces(d2)
         /\ d1.id # d2.id
         /\ \E a \in articles : a._id = d2.id
         /\ \A a \in articles : a._id # d1.id
         /\ \A m \in entities : m.article_id = d2.id

----------------------------------------------------------------------------
(* C14 *)

Ids(coll) == {d._id : d \in coll}

\* the step is one of a query: the promise the caller awaits changes
PromiseChanges ==
  \/ promise'.state # promise.state
  \/ promise'.op # promise.op
  \/ promise.op = "getMinAndMaxDates" /\ promise'.value # promise.value

\* the step answers the call c, and nothing else leaves or enters flight
Answers(c) == c \in BagToSet(pending) /\ pending' = pending (-) SetToBag({c})

\* C14: queries are read-only. Every step of a query (its call, the store's
\* answers to it, the caller dropping the promise) leaves both collections
\* and the calls in flight as they are; a record appears or changes only when
\* the store carries out an upsert, which only uploadArticlesFromDocs issues;
\* a record disappears only when the store carries out a delete, which only
\* pruneOlderThan30d and pruneCharEntities issue.
C14_QueriesReadOnly ==
  [][ /\ PromiseChanges =>
           articles' = articles /\ entities' = entities /\ pending' = pending
      /\ (articles' \ articles # {} \/ entities' \ entities # {}) =>
           \E c \in BagToSet(pending) :
             /\ c.call = "findByIdAndUpdate"
             /\ Answers(c)
             /\ (articles' \ articles) \cup (entities' \ entities) = {c.doc}
      /\ (Ids(articles) \ Ids(articles') # {} \/ Ids(entities) \ Ids(entities') # {}) =>
           \E c \in BagToSet(pending) :
             /\ c.call \in {"remove", "removeWhere"}
             /\ Answers(c)
      /\ \A c \in BagToSet(pending') :
           CopiesIn(c, pending') > CopiesIn(c, pending) =>
             IF c.call = "findByIdAndUpdate"
             THEN made'.docs > made.docs /\ made'.prune = made.prune
             ELSE made'.prune > made.prune /\ made'.docs = made.docs
    ]_vars

\* getArticlesForEntity has resolved with the two Articles of the store, which
\* are still there, while a delete is in flight
C14_Witness ==
  /\ Cardinality(articles) = 2
  /\ promise.state = "resolved"
  /\ promise.op = "getArticlesForEntity"
  /\ Range(promise.value) = articles
  /\ \E c \in BagToSet(pending) : c.call = "remove"

----------------------------------------------------------------------------
(* C15 *)

\* the arrays of ids getArticleIdsForEntity can resolve with for these
\* arguments, in the store as it is
IdsReturned(entity, start, end) ==
  {o.value : o \in {x \in ArticleIdsOutcomes(entity, start, end, FALSE) :
                       x.state = "resolved"}}

----------------------------------------------------------------------------
(* C16 *)

\* C16: unweighted average. The sentiment of each group aggregateEntities
\* returns is the sum of the sentiment of the in-window Mentions of the group
\* divided by their number, whatever their counts.
C16_UnweightedAverage ==
  [][ QueryStep("aggregateEntities") =>
        LET res == promise'.value
            M == MentionsIn(NonZeroStart(promise'), NonZeroEnd(promise'))
        IN  \A i \in 1..Len(res) :
              LET members == {m \in M : ToLower(m.text) = res[i]._id}
              IN  /\ res[i].sentiment.den > 0
                  /\ res[i].sentiment.num * Cardinality(members)
                       = SumSentiment(members) * res[i].sentiment.den
    ]_vars

\* "ab" with count 3 and sentiment 1 and "AB" with count 5 and sentiment -1
\* came back as one group of sentiment 0
C16_Witness ==
  /\ promise.state = "resolved"
  /\ promise.op = "aggregateEntities"
  /\ Len(promise.value) = 1
  /\ promise.value[1].value = 8
  /\ promise.value[1].sentiment.num = 0
  /\ \E m \in entities : m.count = 3 /\ m.sentiment = 1
  /\ \E m \in entities : m.count = 5 /\ m.sentiment = -1

----------------------------------------------------------------------------
(* C17 *)

\* the store reports an error to the callback of a query in this step
StoreFails ==
  /\ Len(log') = Len(log) + 1
  /\ IsError(log'[Len(log')])
  /\ pending' = pending

\* C17: query failures reach the caller. Whenever the store reports an error
\* for a call made by aggregateEntities, getArticleIdsForEntity,
\* getArticlesForEntity or getMinAndMaxDates, the promise the caller holds is
\* rejected; and a rejected promise is never resolved afterwards.
C17_QueryFailuresReachCaller ==
  [][ /\ StoreFails => promise'.state = "rejected"
      /\ promise.state = "rejected" => promise'.state \in {"rejected", "none"}
    ]_vars

\* getMinAndMaxDates is rejected: the store failed the find of the minimum
\* and has answered the find of the maximum since, from a store that holds an
\* Article
C17_Witness ==
  /\ promise.state = "rejected"
  /\ promise.op = "getMinAndMaxDates"
  /\ promise.value[1].answered /\ promise.value[2].answered
  /\ promise.value[2].date # <<>>
  /\ IsError(log[Len(log)])

----------------------------------------------------------------------------
(* C18 *)

\* every uploadArticlesFromDocs call so far has been completed before the
\* next was made, the last one with a single document, and nothing was pruned
UploadsCompleted ==
  /\ Idle
  /\ made.prune = 0
  /\ Len(log) = 1
  /\ IsUpload(log[1])
  /\ Len(log[1].docs) = 1

\* C18: Mention date tracks its article. After any sequence of completed
\* uploadArticlesFromDocs calls, every stored Mention whose article_id is the
\* id of a stored Article has the date of that Article.
C18_MentionDateTracksArticle ==
  UploadsCompleted =>
    \A m \in entities : \A a \in articles :
      m.article_id = a._id => m.date = a.date

----------------------------------------------------------------------------
(* C19 *)

\* C19: getMinAndMaxDates returns a consistent pair. Whatever ingestion and
\* retention do while it runs, the {min, max} it resolves with has both
\* fields null, or both non-null with min <= max.
C19_ConsistentMinMax ==
  (promise.state = "resolved" /\ promise.op = "getMinAndMaxDates") =>
    LET min == promise.value[1].date
        max == promise.value[2].date
    IN  \/ min = <<>> /\ max = <<>>
        \/ min # <<>> /\ max # <<>> /\ min[1] <= max[1]

====
